---- MODULE Spec2Model ----
(***************************************************************************)
(* Loop-invariant code motion of p3.cpp: canMoveOutOfLoop (the legality    *)
(* analysis of a load), mLICM (one scan of a loop) and                     *)
(* LoopInvariantCodeMotion (the driver), run on one function of a module.  *)
(***************************************************************************)
EXTENDS Integers, Sequences, FiniteSets, TLC

\* Number of instructions the input function has inside its loops.
MaxInstr == 2

(***************************************************************************)
(* The input function: its control-flow graph.  Blocks are numbered; every  *)
(* block ends in a terminator, which the scan visits without effect (a      *)
(* branch is never safe to speculate), so terminators are left implicit.    *)
(*   1 entry, 2 preheader of the root loop, 3 header of the root loop,      *)
(*   4 preheader of the child loop, 5 header of the child loop,             *)
(*   6 body of the child loop, 7 latch of the root loop, 8 exit.            *)
(***************************************************************************)
Shapes == {"simple", "nested", "childnopre", "rootnopre"}

Blocks == 1..8

Entry == 1

NoBlock == 0

SuccTab ==
  [simple     |-> <<{2}, {3}, {7, 8}, {}, {}, {}, {3}, {}>>,
   nested     |-> <<{2}, {3}, {4}, {5}, {6, 7}, {5}, {3, 8}, {}>>,
   childnopre |-> <<{2}, {3}, {5, 8}, {}, {6, 7}, {5}, {3}, {}>>,
   rootnopre  |-> <<{3, 8}, {}, {4, 8}, {5}, {6, 7}, {5}, {3}, {}>>]

Succ(s, b) == SuccTab[s][b]

\* LoopInfo of the function: root loop "P", and its child loop "C" if any.
\* blocks lists a loop's member blocks (its sub-loops' blocks included) in
\* the order li->blocks() yields them: header first, reverse post-order.
LoopTab ==
  [simple     |-> [P |-> [blocks |-> <<3, 7>>, subs |-> <<>>],
                   C |-> [blocks |-> <<>>, subs |-> <<>>]],
   nested     |-> [P |-> [blocks |-> <<3, 4, 5, 6, 7>>, subs |-> <<"C">>],
                   C |-> [blocks |-> <<5, 6>>, subs |-> <<>>]],
   childnopre |-> [P |-> [blocks |-> <<3, 5, 6, 7>>, subs |-> <<"C">>],
                   C |-> [blocks |-> <<5, 6>>, subs |-> <<>>]],
   rootnopre  |-> [P |-> [blocks |-> <<3, 4, 5, 6, 7>>, subs |-> <<"C">>],
                   C |-> [blocks |-> <<5, 6>>, subs |-> <<>>]]]

LoopIds == {"P", "C"}

TopLevelLoops(s) == <<"P">>

LoopBlocks(s, l) == LoopTab[s][l].blocks

SubLoops(s, l) == LoopTab[s][l].subs

SeqRange(q) == {q[k] : k \in 1..Len(q)}

BlockSet(s, l) == SeqRange(LoopBlocks(s, l))

\* Loop::contains(BasicBlock*)
Contains(s, l, b) == b \in BlockSet(s, l)

\* Loop::getLoopPreheader(): the only out-of-loop predecessor of the header,
\* if the header is its only successor; NoBlock (nullptr) otherwise.
GetLoopPreheader(s, l) ==
  LET hdr == LoopBlocks(s, l)[1]
      preds == {b \in Blocks : hdr \in Succ(s, b) /\ ~Contains(s, l, b)}
  IN IF Cardinality(preds) = 1
       THEN LET p == CHOOSE b \in preds : TRUE
            IN IF Succ(s, p) = {hdr} THEN p ELSE NoBlock
       ELSE NoBlock

\* Loop::isLoopExiting(bb)
IsLoopExiting(s, l, b) ==
  Contains(s, l, b) /\ \E t \in Succ(s, b) : ~Contains(s, l, t)

RECURSIVE ReachAvoiding(_, _, _)
ReachAvoiding(s, seen, avoid) ==
  LET more == (UNION {Succ(s, b) : b \in seen}) \ (seen \cup {avoid})
  IN IF more = {} THEN seen ELSE ReachAvoiding(s, seen \cup more, avoid)

\* DominatorTree::dominates: a dominates b iff every path from the entry to
\* b passes through a.
DomRelation(s) ==
  {ab \in Blocks \X Blocks :
     \/ ab[1] = ab[2]
     \/ ab[1] = Entry
     \/ ab[2] \notin ReachAvoiding(s, {Entry}, ab[1])}

\* The analyses of each function shape, computed once.
DomTab == [s \in Shapes |-> DomRelation(s)]

PreheaderTab == [s \in Shapes |-> [l \in LoopIds |->
                   IF LoopBlocks(s, l) = <<>> THEN NoBlock ELSE GetLoopPreheader(s, l)]]

(***************************************************************************)
(* Values and instructions.  A value is the global G (a Constant), the     *)
(* function's argument (neither a Constant nor an Instruction) or the      *)
(* result of an instruction.  An instruction has an opcode, one operand    *)
(* (the address of a Load or Store, the operand of an Other) and, for a    *)
(* Load, its volatile flag; home is the block it was created in, blk the   *)
(* block it is in (getParent()), NoBlock once it is erased.                *)
(* Instructions are numbered in creation order:                            *)
(* inst[1] is an alloca of the entry block, inst[2] a pointer computed in  *)
(* the entry block from the address of G (it points to G's storage), the   *)
(* next ones are the instructions of the loops, then come the clones.      *)
(***************************************************************************)
GV == [k |-> "global", id |-> 0]

ArgV == [k |-> "arg", id |-> 0]

NoneV == [k |-> "none", id |-> 0]

IV(i) == [k |-> "inst", id |-> i]

Prelude ==
  << [op |-> "Alloca", addr |-> NoneV, vol |-> FALSE, home |-> Entry, blk |-> Entry],
     [op |-> "Other", addr |-> GV, vol |-> FALSE, home |-> Entry, blk |-> Entry] >>

VARIABLES
  cfg,        \* the shape of the function's control-flow graph
  inst,       \* the instructions ever created (erased ones keep their entry)
  body,       \* per block, its instructions in order, terminator left out
  pc,         \* where the driver is
  roots,      \* top-level loops the driver has still to take
  work,       \* loops of the current top-level loop still to be hoisted
  li,         \* the loop mLICM is scanning
  cur,        \* the scan's iterator: block index in li->blocks(), next instruction
  mRetVal,    \* mLICM's result so far
  isOpt,      \* mLICM's local isOpt
  hasAStore,  \* the global hasAStore
  prevLoop,   \* static prevLoop of mLICM
  prev,       \* static prev of canMoveOutOfLoop
  stat,       \* the llvm::Statistic counters
  fault,      \* why the process died, "none" while it runs
  hoistLog,   \* history: one record per hoisted load
  scanLog,    \* history: the loops mLICM was called on, in call order
  snap        \* history: the state at the start of the current scan

vars == <<cfg, inst, body, pc, roots, work, li, cur, mRetVal, isOpt,
          hasAStore, prevLoop, prev, stat, fault, hoistLog, scanLog, snap>>

NoLoop == "none"

IsConstant(v) == v.k = "global"

IsInstruction(v) == v.k = "inst"

IsAlloca(v) == v.k = "inst" /\ inst[v.id].op = "Alloca"

\* The block an instruction is in, NoBlock once erased.
BlockOf(i) == inst[i].blk

\* The instructions of the member blocks of loop l.
InstsOf(l) == UNION {SeqRange(body[b]) : b \in BlockSet(cfg, l)}

\* Value::users() of instruction i.
Users(i) == {j \in 1..Len(inst) : BlockOf(j) # NoBlock /\ inst[j].addr = IV(i)}

\* The storage a pointer value designates when the function runs: 0 for the
\* storage of G, i for the slot of alloca i, -1 when it is not known (the
\* argument, a loaded pointer).  An Other is an address computation that
\* yields its operand's address (a cast, a zero-offset getelementptr).
RECURSIVE Storage(_)
Storage(v) ==
  IF v.k = "global" THEN 0
  ELSE IF v.k # "inst" THEN -1
  ELSE IF inst[v.id].op = "Alloca" THEN v.id
  ELSE IF inst[v.id].op = "Other" THEN Storage(inst[v.id].addr)
  ELSE -1

SameStorage(a, b) == Storage(a) # -1 /\ Storage(a) = Storage(b)

(***************************************************************************)
(* instrIsInLoop and canMoveOutOfLoop.                                      *)
(***************************************************************************)
\* A fault: the membership test always answers no.
InstrIsInLoop_Never(l, i) == FALSE

RECURSIVE InstrIsInLoop(_, _)
InstrIsInLoop(l, i) ==
  \/ Contains(cfg, l, BlockOf(i))
  \/ \E k \in 1..Len(SubLoops(cfg, l)) : InstrIsInLoop(SubLoops(cfg, l)[k], i)

\* A fault: the volatile check is missing.
IsVolatile_Never(i) == FALSE

\* I->isVolatile()
IsVolatile(i) == inst[i].vol

\* A fault: the scan for a Call is missing.
LoopHasCall_Never(l) == FALSE

\* The scan for a Call in the blocks of l.
LoopHasCall(l) == \E j \in InstsOf(l) : inst[j].op = "Call"

\* General address: any Store in l.
HasAnyStore(l) == \E j \in InstsOf(l) : inst[j].op = "Store"

\* A fault: any Store of l is taken for a Store to the address.
HasStoreTo_Any(l, addr) == HasAnyStore(l)

\* Statically-resolved address: a Store of l with exactly this address operand.
HasStoreTo(l, addr) ==
  \E j \in InstsOf(l) : inst[j].op = "Store" /\ inst[j].addr = addr

\* Statically-resolved address: a Store of l whose address is neither a
\* Constant nor an alloca (it only sets hasAStore).
HasAmbiguousStore(l) ==
  \E j \in InstsOf(l) :
     inst[j].op = "Store" /\ ~IsConstant(inst[j].addr) /\ ~IsAlloca(inst[j].addr)

\* DT->dominates(a, b), of DominatorTree mDT(*f)
Dominates(a, b) == <<a, b>> \in DomTab[cfg]

\* li->getLoopPreheader()
Preheader(l) == PreheaderTab[cfg][l]

\* A fault: the dominance check is missing.
DominatesAllExits_Always(l, b) == TRUE

\* The block dominates every exiting block of l.
DominatesAllExits(l, b) ==
  \A e \in BlockSet(cfg, l) : IsLoopExiting(cfg, l, e) => Dominates(b, e)

\* canMoveOutOfLoop(L, I, DT).  ret is its result; call tells that it left
\* through the Call branch (which updates prev and NumLoopsWithCall), store
\* that it set hasAStore, cast that it reached cast<Instruction>(addr) with
\* an addr that is no Instruction: the behaviour is then undefined, and
\* castIn is what instrIsInLoop made of the mis-typed pointer.
CanMoveOutOfLoop(l, i, castIn) ==
  LET addr == inst[i].addr
      no == [ret |-> FALSE, call |-> FALSE, store |-> FALSE, cast |-> FALSE]
  IN IF IsVolatile(i) THEN no
     ELSE IF LoopHasCall(l) THEN [no EXCEPT !.call = TRUE]
     ELSE IF IsConstant(addr) \/ IsAlloca(addr)
       THEN [no EXCEPT
               !.store = HasAmbiguousStore(l) \/ HasStoreTo(l, addr),
               !.ret = /\ ~HasStoreTo(l, addr)
                       /\ ~(IsAlloca(addr) /\ InstrIsInLoop(l, addr.id))]
     ELSE IF HasAnyStore(l) THEN [no EXCEPT !.store = TRUE]
     ELSE IF ~IsInstruction(addr)
       THEN [no EXCEPT !.cast = TRUE,
                       !.ret = ~castIn /\ DominatesAllExits(l, BlockOf(i))]
     ELSE [no EXCEPT !.ret = /\ ~InstrIsInLoop(l, addr.id)
                             /\ DominatesAllExits(l, BlockOf(i))]

(***************************************************************************)
(* Loop::makeLoopInvariant(I, Changed, nullptr, nullptr) of LLVM, as mLICM  *)
(* uses it: a value defined outside the loop is invariant; an instruction   *)
(* of the loop is hoisted, after its operand, when it is safe to speculate  *)
(* and reads no memory (an Other), and the loop has a preheader.  ok is the *)
(* result, moved the instructions moved to the preheader, in order.         *)
(***************************************************************************)
RECURSIVE MakeLoopInvariant(_, _)
MakeLoopInvariant(l, v) ==
  IF ~IsInstruction(v) \/ ~Contains(cfg, l, BlockOf(v.id))
    THEN [ok |-> TRUE, moved |-> <<>>]
  ELSE IF inst[v.id].op # "Other" \/ Preheader(l) = NoBlock
    THEN [ok |-> FALSE, moved |-> <<>>]
  ELSE LET r == MakeLoopInvariant(l, inst[v.id].addr)
       IN IF r.ok THEN [ok |-> TRUE, moved |-> Append(r.moved, v.id)]
          ELSE [ok |-> FALSE, moved |-> r.moved]

(***************************************************************************)
(* main: parseIRFile reads the function, every well-formed placement of up *)
(* to MaxInstr instructions in blocks of the root loop.  Instructions are  *)
(* read in the order of li->blocks(); an operand is a value defined        *)
(* outside the loops or an earlier instruction whose block dominates the   *)
(* user's.                                                                  *)
(***************************************************************************)
\* The blocks of each shape that hold the input's instructions, in the
\* order of li->blocks().
PlaceTab ==
  [simple |-> <<3, 7>>, nested |-> <<3, 5, 6>>, childnopre |-> <<5, 6>>,
   rootnopre |-> <<5>>]

BlockIdx(b) == CHOOSE k \in 1..Len(PlaceTab[cfg]) : PlaceTab[cfg][k] = b

\* The instructions that may follow those read so far.
NextInstructions ==
  LET n == Len(inst)
      from == IF n = Len(Prelude) THEN 1 ELSE BlockIdx(BlockOf(n))
      blks == {b \in SeqRange(PlaceTab[cfg]) : BlockIdx(b) >= from}
      defs(b) == {IV(j) : j \in
                    {j \in (Len(Prelude) + 1)..n :
                       /\ inst[j].op \in {"Load", "Other", "Alloca"}
                       /\ Dominates(BlockOf(j), b)}}
      addrs(b) == {GV, ArgV, IV(1), IV(2)} \cup defs(b)
  IN UNION {
       [op : {"Load"}, addr : addrs(b), vol : {FALSE}, blk : {b}]
       \cup [op : {"Load"}, addr : {GV, IV(1), IV(2)}, vol : {TRUE}, blk : {b}]
       \cup [op : {"Store"}, addr : {GV, IV(1), IV(2)}, vol : {FALSE}, blk : {b}]
       \cup [op : {"Other"}, addr : {GV} \cup defs(b), vol : {FALSE}, blk : {b}]
       \cup [op : {"Call", "Alloca"}, addr : {NoneV}, vol : {FALSE}, blk : {b}]
       : b \in blks}

Counters ==
  {"NumLoops", "NumLoopsWithCall", "NumLoopsNoLoads", "NumLoopsNoStores",
   "LICMBasic", "LICMLoadHoist", "LICMNoPreheader"}

NoCursor == [bi |-> 0, id |-> 0]

NoSnap == [body |-> <<>>, inst |-> <<>>, stat |-> <<>>, hoistable |-> FALSE,
           again |-> FALSE]

Init ==
  \E s \in Shapes :
    /\ cfg = s
    /\ inst = Prelude
    /\ body = [b \in Blocks |-> IF b = Entry THEN <<1, 2>> ELSE <<>>]
    /\ pc = "parse"
    /\ roots = TopLevelLoops(s)
    /\ work = <<>>
    /\ li = NoLoop
    /\ cur = NoCursor
    /\ mRetVal = FALSE
    /\ isOpt = FALSE
    /\ hasAStore = FALSE
    /\ prevLoop = NoLoop
    /\ prev = NoLoop
    /\ stat = [c \in Counters |-> 0]
    /\ fault = "none"
    /\ hoistLog = <<>>
    /\ scanLog = <<>>
    /\ snap = NoSnap

\* parseIRFile: one more instruction of the function is read.
ParseInstruction ==
  /\ pc = "parse"
  /\ Len(inst) < Len(Prelude) + MaxInstr
  /\ \E x \in NextInstructions :
       /\ inst' = Append(inst, [op |-> x.op, addr |-> x.addr, vol |-> x.vol,
                                home |-> x.blk, blk |-> x.blk])
       /\ body' = [body EXCEPT ![x.blk] = Append(@, Len(inst) + 1)]
  /\ UNCHANGED <<cfg, pc, roots, work, li, cur, mRetVal, isOpt, hasAStore,
                 prevLoop, prev, stat, fault, hoistLog, scanLog, snap>>

\* main: the module is read, LoopInvariantCodeMotion(*M) is called.
RunLICM ==
  /\ pc = "parse"
  /\ pc' = "driver"
  /\ UNCHANGED <<cfg, inst, body, roots, work, li, cur, mRetVal, isOpt,
                 hasAStore, prevLoop, prev, stat, fault, hoistLog, scanLog, snap>>

(***************************************************************************)
(* mLICM: one scan of loop li.                                              *)
(***************************************************************************)
Remove(q, i) == SelectSeq(q, LAMBDA x : x # i)

\* The instruction after i in its block, 0 at the end of the block.
After(b, i) ==
  LET k == CHOOSE k \in 1..Len(body[b]) : body[b][k] = i
  IN IF k < Len(body[b]) THEN body[b][k + 1] ELSE 0

\* The iterator on reaching block index bi of l: the first instruction of
\* the first block from there on that has one (bd is the blocks' content).
RECURSIVE FirstFrom(_, _, _)
FirstFrom(l, bd, bi) ==
  IF bi > Len(LoopBlocks(cfg, l)) THEN [bi |-> bi, id |-> 0]
  ELSE IF bd[LoopBlocks(cfg, l)[bi]] # <<>>
    THEN [bi |-> bi, id |-> bd[LoopBlocks(cfg, l)[bi]][1]]
  ELSE FirstFrom(l, bd, bi + 1)

\* Inst = &*i++ : the iterator once it has stepped over cur.id.
Advance(bd) ==
  LET nxt == After(LoopBlocks(cfg, li)[cur.bi], cur.id)
  IN IF nxt # 0 THEN [bi |-> cur.bi, id |-> nxt]
     ELSE FirstFrom(li, bd, cur.bi + 1)

\* Whether a scan of l would hoist something: a load canMoveOutOfLoop may
\* accept, or an instruction makeLoopInvariant moves.
Hoistable(l) ==
  \E j \in InstsOf(l) :
     \/ inst[j].op = "Load" /\ \E c \in BOOLEAN : CanMoveOutOfLoop(l, j, c).ret
     \/ inst[j].op \notin {"Load", "Store"} /\ MakeLoopInvariant(l, IV(j)).ok

\* The call mLICM(l, &mDT): the locals' initialisation and the first begin().
CallLICM(l, again) ==
  /\ li' = l
  /\ mRetVal' = FALSE
  /\ isOpt' = FALSE
  /\ hasAStore' = FALSE
  /\ cur' = FirstFrom(l, body, 1)
  /\ scanLog' = IF again THEN scanLog ELSE Append(scanLog, l)
  /\ snap' = [body |-> body, inst |-> inst, stat |-> stat,
              hoistable |-> Hoistable(l), again |-> again]
  /\ pc' = "scan"

Visiting(op) == pc = "scan" /\ cur.id # 0 /\ inst[cur.id].op \in op

\* A fault: the static prev is never consulted.
CallCounted_Never(l) == FALSE

\* prev == nullptr || prev != L, negated: the Call of l was counted already.
CallCounted(l) == prev = l

\* The side effects of canMoveOutOfLoop with outcome r.
Analysed(r) ==
  /\ hasAStore' = (hasAStore \/ r.store)
  /\ prev' = IF r.call THEN li ELSE prev
  /\ stat' = IF r.call /\ ~CallCounted(li)
               THEN [stat EXCEPT !.NumLoopsWithCall = @ + 1] ELSE stat

\* A Store: skipped.
VisitStore ==
  /\ Visiting({"Store"})
  /\ cur' = Advance(body)
  /\ UNCHANGED <<cfg, inst, body, pc, roots, work, li, mRetVal, isOpt,
                 hasAStore, prevLoop, prev, stat, fault, hoistLog, scanLog, snap>>

\* A Load canMoveOutOfLoop rejects.
VisitLoadStay ==
  /\ Visiting({"Load"})
  /\ \E c \in BOOLEAN :
       LET r == CanMoveOutOfLoop(li, cur.id, c)
       IN /\ ~r.ret
          /\ Analysed(r)
  /\ cur' = Advance(body)
  /\ UNCHANGED <<cfg, inst, body, pc, roots, work, li, mRetVal, isOpt,
                 prevLoop, fault, hoistLog, scanLog, snap>>

\* A Load whose address is no Instruction reaches cast<Instruction>(addr): a
\* build with assertions aborts there.
VisitLoadBadCast ==
  /\ Visiting({"Load"})
  /\ CanMoveOutOfLoop(li, cur.id, FALSE).cast
  /\ pc' = "crashed"
  /\ fault' = "cast"
  /\ UNCHANGED <<cfg, inst, body, roots, work, li, cur, mRetVal, isOpt,
                 hasAStore, prevLoop, prev, stat, hoistLog, scanLog, snap>>

\* A Load canMoveOutOfLoop accepts, in a loop without preheader:
\* li->getLoopPreheader()->getTerminator() dereferences nullptr.
VisitLoadNoPreheader ==
  /\ Visiting({"Load"})
  /\ Preheader(li) = NoBlock
  /\ \E c \in BOOLEAN :
       LET r == CanMoveOutOfLoop(li, cur.id, c)
       IN /\ r.ret
          /\ Analysed(r)
  /\ isOpt' = TRUE
  /\ pc' = "crashed"
  /\ fault' = "preheader"
  /\ UNCHANGED <<cfg, inst, body, roots, work, li, cur, mRetVal,
                 prevLoop, hoistLog, scanLog, snap>>

\* What the scan records of a load it hoists, taken before the hoist.
HoistRecord(i, new) ==
  [loop |-> li, old |-> i, new |-> new, from |-> BlockOf(i),
   addr |-> inst[i].addr, vol |-> inst[i].vol,
   calls |-> {j \in InstsOf(li) : inst[j].op = "Call"},
   stores |-> {j \in InstsOf(li) : inst[j].op = "Store"},
   users |-> Users(i),
   usersIn |-> {u \in Users(i) : Contains(cfg, li, BlockOf(u))},
   scan |-> Len(scanLog)]

\* Whether the loop over Inst->users() that follows the hoist of a load sets
\* mRetVal.  Inst has been erased by then and, before that, lost all its
\* uses to the clone: the list read (from freed memory) is the empty one.
UserInLoopAfterHoist(i) == FALSE

\* A Load canMoveOutOfLoop accepts: cloned before the preheader's
\* terminator, its uses redirected to the clone, erased, counted.  The read
\* of the erased instruction's users is a use after free: it finds the
\* empty list ("empty") or is trapped by a checking allocator ("trap").
VisitLoadHoist ==
  /\ Visiting({"Load"})
  /\ Preheader(li) # NoBlock
  /\ \E c \in BOOLEAN : \E uaf \in {"empty", "trap"} :
       LET i == cur.id
           r == CanMoveOutOfLoop(li, i, c)
           new == Len(inst) + 1
           ph == Preheader(li)
           bd == [body EXCEPT ![BlockOf(i)] = Remove(@, i), ![ph] = Append(@, new)]
       IN /\ r.ret
          /\ hasAStore' = (hasAStore \/ r.store)
          /\ prev' = prev
          /\ isOpt' = TRUE
          /\ inst' = Append([j \in 1..Len(inst) |->
                               IF j \in Users(i)
                                 THEN [inst[j] EXCEPT !.addr = IV(new)]
                               ELSE IF j = i THEN [inst[j] EXCEPT !.blk = NoBlock]
                               ELSE inst[j]],
                            [inst[i] EXCEPT !.home = ph, !.blk = ph])
          /\ body' = bd
          /\ stat' = [stat EXCEPT !.LICMLoadHoist = @ + 1]
          /\ hoistLog' = Append(hoistLog, HoistRecord(i, new))
          /\ mRetVal' = (mRetVal \/ UserInLoopAfterHoist(i))
          /\ cur' = Advance(bd)
          /\ pc' = IF uaf = "trap" THEN "crashed" ELSE pc
          /\ fault' = IF uaf = "trap" THEN "freed" ELSE fault
  /\ UNCHANGED <<cfg, roots, work, li, prevLoop, scanLog, snap>>

\* Any other instruction makeLoopInvariant moves to the preheader.
VisitOtherHoist ==
  /\ Visiting({"Other", "Call", "Alloca"})
  /\ LET i == cur.id
         r == MakeLoopInvariant(li, IV(i))
         ph == Preheader(li)
         gone == SeqRange(r.moved)
         bd == [b \in Blocks |->
                  IF b = ph THEN body[b] \o r.moved
                  ELSE SelectSeq(body[b], LAMBDA x : x \notin gone)]
     IN /\ r.ok
        /\ r.moved # <<>>
        /\ body' = bd
        /\ inst' = [j \in 1..Len(inst) |->
                      IF j \in gone THEN [inst[j] EXCEPT !.blk = ph] ELSE inst[j]]
        /\ stat' = [stat EXCEPT !.LICMBasic = @ + 1]
        /\ mRetVal' = (mRetVal \/ \E u \in Users(i) : Contains(cfg, li, BlockOf(u)))
        /\ cur' = Advance(bd)
  /\ UNCHANGED <<cfg, pc, roots, work, li, isOpt, hasAStore,
                 prevLoop, prev, fault, hoistLog, scanLog, snap>>

\* Any other instruction makeLoopInvariant leaves where it is.
VisitOtherStay ==
  /\ Visiting({"Other", "Call", "Alloca"})
  /\ ~MakeLoopInvariant(li, IV(cur.id)).ok
  /\ cur' = Advance(body)
  /\ UNCHANGED <<cfg, inst, body, pc, roots, work, li, mRetVal, isOpt,
                 hasAStore, prevLoop, prev, stat, fault, hoistLog, scanLog, snap>>

\* The end of the scan: the NumLoopsNoStores bookkeeping, and the return.
EndScan ==
  /\ pc = "scan"
  /\ cur.id = 0
  /\ prevLoop' = li
  /\ stat' = IF prevLoop # li /\ isOpt /\ ~hasAStore
               THEN [stat EXCEPT !.NumLoopsNoStores = @ + 1] ELSE stat
  /\ pc' = "ret"
  /\ UNCHANGED <<cfg, inst, body, roots, work, li, cur, mRetVal, isOpt,
                 hasAStore, prev, fault, hoistLog, scanLog, snap>>

(***************************************************************************)
(* LoopInvariantCodeMotion: the driver.                                     *)
(***************************************************************************)
\* A top-level loop without preheader: counted and skipped.
DriverSkip ==
  /\ pc = "driver"
  /\ roots # <<>>
  /\ Preheader(Head(roots)) = NoBlock
  /\ stat' = [stat EXCEPT !.LICMNoPreheader = @ + 1]
  /\ roots' = Tail(roots)
  /\ UNCHANGED <<cfg, inst, body, pc, work, li, cur, mRetVal, isOpt,
                 hasAStore, prevLoop, prev, fault, hoistLog, scanLog, snap>>

\* A fault: the loop itself first, then its sub-loops.
WorkList_ParentFirst(l) == <<l>> \o SubLoops(cfg, l)

\* The loops to hoist for one top-level loop, in the order the driver takes
\* them: its sub-loops, then the loop itself.
WorkList(l) == SubLoops(cfg, l) \o <<l>>

\* A top-level loop with a preheader.
DriverEnter ==
  /\ pc = "driver"
  /\ roots # <<>>
  /\ Preheader(Head(roots)) # NoBlock
  /\ work' = WorkList(Head(roots))
  /\ roots' = Tail(roots)
  /\ pc' = "loops"
  /\ UNCHANGED <<cfg, inst, body, li, cur, mRetVal, isOpt, hasAStore,
                 prevLoop, prev, stat, fault, hoistLog, scanLog, snap>>

\* NumLoops++ and the first call of mLICM on the next loop.
BeginLoop ==
  /\ pc = "loops"
  /\ work # <<>>
  /\ stat' = [stat EXCEPT !.NumLoops = @ + 1]
  /\ CallLICM(Head(work), FALSE)
  /\ UNCHANGED <<cfg, inst, body, roots, work, prevLoop, prev, fault,
                 hoistLog>>

\* while (mLICM(...)): it returned true, it is called again.
Rescan ==
  /\ pc = "ret"
  /\ mRetVal
  /\ CallLICM(li, FALSE)
  /\ UNCHANGED <<cfg, inst, body, roots, work, prevLoop, prev, stat,
                 fault, hoistLog>>

\* while (mLICM(...)): it returned false, the loop is done.
LoopDone ==
  /\ pc = "ret"
  /\ ~mRetVal
  /\ work # <<>>
  /\ work' = Tail(work)
  /\ pc' = "loops"
  /\ UNCHANGED <<cfg, inst, body, roots, li, cur, mRetVal, isOpt,
                 hasAStore, prevLoop, prev, stat, fault, hoistLog, scanLog, snap>>

\* The sub-loops and the top-level loop are done: on to the next one.
RootDone ==
  /\ pc = "loops"
  /\ work = <<>>
  /\ pc' = "driver"
  /\ UNCHANGED <<cfg, inst, body, roots, work, li, cur, mRetVal, isOpt,
                 hasAStore, prevLoop, prev, stat, fault, hoistLog, scanLog, snap>>

\* numStats(M): the top-level loops without any Load are counted.
NumStats ==
  /\ pc = "driver"
  /\ roots = <<>>
  /\ LET tl == TopLevelLoops(cfg)
         noLoad == {k \in 1..Len(tl) : \A j \in InstsOf(tl[k]) : inst[j].op # "Load"}
     IN stat' = [stat EXCEPT !.NumLoopsNoLoads = @ + Cardinality(noLoad)]
  /\ pc' = "done"
  /\ UNCHANGED <<cfg, inst, body, roots, work, li, cur, mRetVal, isOpt,
                 hasAStore, prevLoop, prev, fault, hoistLog, scanLog, snap>>

\* The program: main, the driver, the scans.
Next ==
  \/ ParseInstruction
  \/ RunLICM
  \/ DriverSkip
  \/ DriverEnter
  \/ BeginLoop
  \/ VisitStore
  \/ VisitLoadStay
  \/ VisitLoadBadCast
  \/ VisitLoadNoPreheader
  \/ VisitLoadHoist
  \/ VisitOtherHoist
  \/ VisitOtherStay
  \/ EndScan
  \/ Rescan
  \/ LoopDone
  \/ RootDone
  \/ NumStats

Spec == Init /\ [][Next]_vars

(***************************************************************************)
(* mLICM taken alone: a caller that invokes it on any loop of the function *)
(* and, each time it has returned, invokes it again on that loop, any      *)
(* number of times.  Only the first call is entered in scanLog.            *)
(***************************************************************************)
FirstInvoke ==
  /\ pc = "parse"
  /\ \E l \in LoopIds :
       /\ LoopBlocks(cfg, l) # <<>>
       /\ CallLICM(l, FALSE)
  /\ UNCHANGED <<cfg, inst, body, roots, work, prevLoop, prev, stat,
                 fault, hoistLog>>

ReInvoke ==
  /\ pc = "ret"
  /\ CallLICM(li, TRUE)
  /\ UNCHANGED <<cfg, inst, body, roots, work, prevLoop, prev, stat,
                 fault, hoistLog>>

NextRepeat ==
  \/ ParseInstruction
  \/ FirstInvoke
  \/ VisitStore
  \/ VisitLoadStay
  \/ VisitLoadBadCast
  \/ VisitLoadNoPreheader
  \/ VisitLoadHoist
  \/ VisitOtherHoist
  \/ VisitOtherStay
  \/ EndScan
  \/ ReInvoke

SpecRepeat == Init /\ [][NextRepeat]_vars

(***************************************************************************)
(* The claims.                                                             *)
(***************************************************************************)
Log == 1..Len(hoistLog)

Live(i) == inst[i].blk # NoBlock

IsStaticAddr(a) ==
  a.k = "global" \/ (a.k = "inst" /\ inst[a.id].op = "Alloca")

\* Every exiting block of l is dominated by block b.
ExitsDominatedBy(l, b) ==
  \A e \in BlockSet(cfg, l) :
     (\E x \in Succ(cfg, e) : x \notin BlockSet(cfg, l)) => <<b, e>> \in DomTab[cfg]

HasCallIn(l) == \E b \in BlockSet(cfg, l) : \E k \in 1..Len(body[b]) :
                   inst[body[b][k]].op = "Call"

StoresIn(l) == {j \in 1..Len(inst) :
                  Live(j) /\ inst[j].op = "Store" /\ inst[j].blk \in BlockSet(cfg, l)}

\* C1: for every load hoisted out of a loop, no Store in a member block of
\* that loop writes to the storage the load reads.
C1_NoAliasingStore ==
  \A k \in Log : \A j \in hoistLog[k].stores :
     ~SameStorage(inst[j].addr, hoistLog[k].addr)

\* C2, as stated: every hoisted load, whatever its address, came from a
\* block that dominates every exiting block of the loop.
C2_HoistedFromDominatingBlock ==
  \A k \in Log : ExitsDominatedBy(hoistLog[k].loop, hoistLog[k].from)

\* C2, amended: every hoisted load came from a block that dominates every
\* exiting block of the loop, or its address is statically resolved: the
\* global, or a stack slot allocated outside the loop.
C2_HoistedDominatingOrStatic ==
  \A k \in Log :
     \/ ExitsDominatedBy(hoistLog[k].loop, hoistLog[k].from)
     \/ /\ IsStaticAddr(hoistLog[k].addr)
        /\ hoistLog[k].addr.k = "inst" =>
             inst[hoistLog[k].addr.id].home \notin BlockSet(cfg, hoistLog[k].loop)

C2_Witness ==
  \E k \in Log : ~ExitsDominatedBy(hoistLog[k].loop, hoistLog[k].from)

\* C3: a load whose address is a general value is hoisted out of a loop
\* only from a block that dominates every exiting block of the loop.
C3_GeneralLoadDominates ==
  \A k \in Log :
     ~IsStaticAddr(hoistLog[k].addr) =>
        ExitsDominatedBy(hoistLog[k].loop, hoistLog[k].from)

\* The pass is over; of two loads of the same general address, the one in
\* the header was hoisted, the one in the block the exit bypasses was not.
C3_Witness ==
  /\ pc = "done"
  /\ cfg = "simple"
  /\ \E k \in Log : hoistLog[k].addr = IV(2) /\ hoistLog[k].from = 3
  /\ \E i \in 1..Len(inst) :
        /\ inst[i].op = "Load" /\ ~inst[i].vol /\ inst[i].addr = IV(2)
        /\ inst[i].blk = 7 /\ inst[i].home = 7

C5_VolatileStays ==
  \A i \in 1..Len(inst) :
     inst[i].vol =>
        /\ inst[i].blk = inst[i].home
        /\ i <= Len(Prelude) + MaxInstr
        /\ \A k \in Log : hoistLog[k].old # i /\ hoistLog[k].new # i

\* The pass is over; a volatile load of G sits in a loop that was scanned
\* and has neither Call nor Store, next to a hoisted load.
C5_Witness ==
  /\ pc = "done"
  /\ hoistLog # <<>>
  /\ \E i \in 1..Len(inst) :
        /\ inst[i].vol /\ inst[i].addr = GV
        /\ \E k \in 1..Len(scanLog) :
              /\ inst[i].blk \in BlockSet(cfg, scanLog[k])
              /\ ~HasCallIn(scanLog[k])
              /\ StoresIn(scanLog[k]) = {}

\* C7: a loop without preheader, top-level or child, is skipped: mLICM is
\* never called on it and no insertion into its missing preheader happens.
C7_NoPreheaderLoopSkipped ==
  \A l \in LoopIds :
     LoopBlocks(cfg, l) # <<>> /\ PreheaderTab[cfg][l] = NoBlock =>
        /\ \A k \in 1..Len(scanLog) : scanLog[k] # l
        /\ fault # "preheader"

\* C10: a scan that hoisted a load which, before its uses were redirected,
\* had a user in a block of the loop, returns true.
C10_HoistWithUserInLoopReturnsTrue ==
  pc = "ret" =>
     ((\E k \in Log : hoistLog[k].scan = Len(scanLog) /\ hoistLog[k].usersIn # {})
        => mRetVal)

\* The instruction that stands for i once the hoists on record are done:
\* the clone of its clone ... of its clone.
RECURSIVE FinalOf(_)
FinalOf(i) ==
  IF \E k \in Log : hoistLog[k].old = i
    THEN FinalOf(hoistLog[CHOOSE k \in Log : hoistLog[k].old = i].new)
    ELSE i

\* The hoists on record of load i and of its clones.
RECURSIVE HoistsOf(_)
HoistsOf(i) ==
  IF \E k \in Log : hoistLog[k].old = i
    THEN LET k == CHOOSE k \in Log : hoistLog[k].old = i
         IN {k} \cup HoistsOf(hoistLog[k].new)
    ELSE {}

\* The loops of the function.
Loops == {l \in LoopIds : LoopTab[cfg][l].blocks # <<>>}

\* The loops whose member blocks include those of l (l among them).
Enclosing(l) == {m \in Loops : BlockSet(cfg, l) \subseteq BlockSet(cfg, m)}

\* The non-volatile loads of G the function had in a block of l when it was
\* read, G being written by no Store of l.
GlobalLoadsOf(l) ==
  {i \in (Len(Prelude) + 1)..Len(inst) :
     /\ i <= Len(Prelude) + MaxInstr
     /\ inst[i].op = "Load" /\ ~inst[i].vol /\ inst[i].addr = GV
     /\ inst[i].home \in BlockSet(cfg, l)
     /\ \A j \in StoresIn(l) : ~SameStorage(inst[j].addr, GV)}

\* Every use the load had when it was hoisted refers to what stands for it.
UsesRedirected(i) ==
  \A k \in HoistsOf(i) : \A u \in hoistLog[k].users :
     inst[FinalOf(u)].addr = IV(FinalOf(i))

\* C6, as stated: when the pass has finished, every non-volatile load of a
\* global no Store of the loop writes to, in a loop with a preheader and
\* without Call, is gone from the loop, its clone is the last instruction of
\* the loop's preheader before the terminator, its uses refer to the clone,
\* and the load was counted exactly once.
C6_HoistedOnceToOwnPreheader ==
  pc = "done" =>
    \A l \in Loops :
       PreheaderTab[cfg][l] # NoBlock /\ ~HasCallIn(l) =>
          \A i \in GlobalLoadsOf(l) :
             LET ph == body[PreheaderTab[cfg][l]]
             IN /\ ~Live(i)
                /\ ph # <<>> /\ ph[Len(ph)] = FinalOf(i)
                /\ UsesRedirected(i)
                /\ Cardinality(HoistsOf(i)) = 1
                /\ stat.LICMLoadHoist = Len(hoistLog)

\* C6, amended: when the pass has finished, every such load of a loop that
\* has a preheader, lies in a top-level loop that has one and holds no Call
\* is gone from the loop; what stands for it is in the preheader of the loop
\* or of a loop around it, outside the loop; its uses refer to that
\* instruction; it was counted once for each loop it was hoisted out of (once
\* if the loop is not nested), and the counter is the number of hoists.
C6_HoistedOncePerLoopLevel ==
  pc = "done" =>
    \A l \in Loops :
       /\ PreheaderTab[cfg][l] # NoBlock
       /\ \A m \in Enclosing(l) : SubLoops(cfg, m) # <<>> => PreheaderTab[cfg][m] # NoBlock
       /\ ~HasCallIn(l)
       => \A i \in GlobalLoadsOf(l) :
             /\ ~Live(i)
             /\ Live(FinalOf(i))
             /\ inst[FinalOf(i)].blk \notin BlockSet(cfg, l)
             /\ inst[FinalOf(i)].blk \in {PreheaderTab[cfg][m] : m \in Enclosing(l)}
             /\ UsesRedirected(i)
             /\ Cardinality(HoistsOf(i)) >= 1
             /\ Cardinality(HoistsOf(i)) <=
                   Cardinality({m \in Loops : inst[i].home \in BlockSet(cfg, m)})
             /\ \A j, k \in HoistsOf(i) : j # k => hoistLog[j].loop # hoistLog[k].loop
             /\ stat.LICMLoadHoist = Len(hoistLog)

\* The pass is over on the single loop: the load of G, which had a user in
\* the loop, is erased, its clone is in the preheader and the user reads it.
C6_Witness ==
  /\ pc = "done"
  /\ cfg = "simple"
  /\ \E i \in GlobalLoadsOf("P") :
        /\ ~Live(i)
        /\ inst[FinalOf(i)].blk = PreheaderTab[cfg]["P"]
        /\ \E k \in HoistsOf(i) : hoistLog[k].users # {}
        /\ stat.LICMLoadHoist = 1

C9_FixedPointChangesNothing ==
  pc = "ret" /\ ~snap.hoistable =>
     /\ ~mRetVal
     /\ inst = snap.inst
     /\ body = snap.body
     /\ stat = snap.stat

\* C9, amended: a call of mLICM on a loop in which nothing is hoistable
\* returns false and leaves every instruction where it is; it increments no
\* counter but NumLoopsWithCall, that one by 1 at most, and not at all when
\* it repeats a call on the same loop.
C9_FixedPointButCallCounter ==
  pc = "ret" /\ ~snap.hoistable =>
     /\ ~mRetVal
     /\ inst = snap.inst
     /\ body = snap.body
     /\ \A c \in Counters \ {"NumLoopsWithCall"} : stat[c] = snap.stat[c]
     /\ stat.NumLoopsWithCall \in {snap.stat.NumLoopsWithCall,
                                   snap.stat.NumLoopsWithCall + 1}
     /\ snap.again => stat = snap.stat

\* A repeated call has returned, on a loop with a Call and a non-volatile
\* load, in which nothing is hoistable; the Call was counted by the first.
C9_Witness ==
  /\ pc = "ret"
  /\ snap.again
  /\ ~snap.hoistable
  /\ HasCallIn(li)
  /\ \E i \in 1..Len(inst) :
        inst[i].op = "Load" /\ ~inst[i].vol /\ inst[i].blk \in BlockSet(cfg, li)
  /\ stat.NumLoopsWithCall = 1

====
